---------------------------- MODULE Spec2Model ----------------------------
(***************************************************************************)
(* Model of Atividades/Atividade2/Atividade2EaD.py: a linear script that   *)
(* simulates a lot of parts, sizes and draws a sample, describes it, runs  *)
(* three hypothesis tests, builds confidence intervals and decides whether *)
(* the lot is approved.                                                    *)
(*                                                                         *)
(* Number representation.  TLC has integers only, so the script's floats   *)
(* are modelled as follows:                                                *)
(*   - the sample-size formula is evaluated in exact rational arithmetic   *)
(*     (records [num, den] in lowest terms);                               *)
(*   - measurements, means, standard deviations, standard errors, margins, *)
(*     test statistics and critical values are fixed-point thousandths;    *)
(*   - proportions are fixed-point ten-thousandths;                        *)
(*   - p-values are thousandths, and the scipy distribution functions are  *)
(*     step tables that are exact at the tabulated quantiles.              *)
(***************************************************************************)
EXTENDS Integers, Sequences, FiniteSets, TLC

VARIABLES
    pc,                 \* position of the script
    seaborn_instalado,  \* environment: seaborn can be imported
    estilos_disponiveis,\* environment: the preferred styles matplotlib has
    SEABORN_AVAILABLE,  \* lines 15 / 18
    estilo,             \* the style plt.style.use applied
    estilos_aplicados,  \* number of plt.style.use calls that succeeded
    avisos,             \* notices printed by the two fallbacks
    populacao,          \* DataFrame: sequence of rows [peso, dimensao]
    N, z, p, E,         \* sample-size parameters (N integer, z p E rationals)
    n_calculado,        \* rational
    n_amostra,
    indices_amostra,    \* sequence of 0-based row positions
    amostra,            \* DataFrame: sequence of rows [peso, dimensao]
    stats_peso, stats_dimensao,
    t_stat_peso, p_value_peso, t_critico, decisao_peso,
    t_stat_dimensao, p_value_dimensao, decisao_dimensao,
    peso_conforme, dimensao_conforme, pecas_conformes, proporcao_conformes,
    n, x, p_obs, z_stat, p_value_prop, decisao_prop,
    erro_padrao_peso, margem_erro_peso, ic_peso_inferior, ic_peso_superior,
    erro_padrao_dimensao, margem_erro_dimensao,
    ic_dimensao_inferior, ic_dimensao_superior,
    erro_padrao_prop, margem_erro_prop, ic_prop_inferior, ic_prop_superior,
    criterios_aprovacao, todos_criterios_ok, decisao_final, justificativa,
    recomendacoes, resumo

ambiente == <<seaborn_instalado, estilos_disponiveis>>
envVars  == <<SEABORN_AVAILABLE, estilo, estilos_aplicados, avisos>>
sizeVars == <<N, z, p, E, n_calculado, n_amostra>>
drawVars == <<indices_amostra, amostra>>
descVars == <<stats_peso, stats_dimensao>>
testVars == <<t_stat_peso, p_value_peso, t_critico, decisao_peso,
              t_stat_dimensao, p_value_dimensao, decisao_dimensao,
              peso_conforme, dimensao_conforme, pecas_conformes,
              proporcao_conformes, n, x, p_obs, z_stat, p_value_prop,
              decisao_prop>>
icMediaVars == <<erro_padrao_peso, margem_erro_peso, ic_peso_inferior,
                 ic_peso_superior, erro_padrao_dimensao, margem_erro_dimensao,
                 ic_dimensao_inferior, ic_dimensao_superior>>
icPropVars == <<erro_padrao_prop, margem_erro_prop, ic_prop_inferior,
                ic_prop_superior>>
decVars  == <<criterios_aprovacao, todos_criterios_ok, decisao_final,
              justificativa>>
vars == <<pc, ambiente, envVars, populacao, sizeVars, drawVars, descVars, testVars,
          icMediaVars, icPropVars, decVars, recomendacoes, resumo>>

---------------------------------------------------------------------------
(* Exact rational arithmetic for the sample-size formula.                  *)

RECURSIVE GCD(_, _)
GCD(a, b) == IF b = 0 THEN a ELSE GCD(b, a % b)

Abs(a) == IF a < 0 THEN -a ELSE a

\* The rational a/b in lowest terms with a positive denominator.
Rat(a, b) ==
    LET g == GCD(Abs(a), Abs(b))
        s == IF b < 0 THEN -1 ELSE 1
    IN  [num |-> s * (a \div g), den |-> s * (b \div g)]

RInt(a) == [num |-> a, den |-> 1]

\* Products cancel common factors before multiplying.
RMul(a, b) ==
    LET g1 == GCD(Abs(a.num), b.den)
        g2 == GCD(Abs(b.num), a.den)
    IN  Rat((a.num \div g1) * (b.num \div g2), (a.den \div g2) * (b.den \div g1))

RAdd(a, b) ==
    LET g == GCD(a.den, b.den)
    IN  Rat(a.num * (b.den \div g) + b.num * (a.den \div g), (a.den \div g) * b.den)

RSub(a, b) == RAdd(a, [num |-> -b.num, den |-> b.den])

RDiv(a, b) == RMul(a, Rat(b.den, b.num))

\* a <= b for rationals a, b >= 0, by comparing continued-fraction digits.
RECURSIVE FracLe(_, _, _, _)
FracLe(a, b, c, d) ==
    IF a \div b # c \div d THEN a \div b < c \div d
    ELSE IF a % b = 0 THEN TRUE
    ELSE IF c % d = 0 THEN FALSE
    ELSE FracLe(d, c % d, b, a % b)

RLe(a, b) == FracLe(a.num, a.den, b.num, b.den)

\* np.ceil of a rational.
Ceil(r) == (r.num + r.den - 1) \div r.den

---------------------------------------------------------------------------
(* Section 2 of the script: the size of the sample (lines 77-83).          *)

\* line 82: (z**2 * p * (1-p) * N) / (E**2 * (N-1) + z**2 * p * (1-p))
NCalculado(Np, zp, pp, Ep) ==
    LET um   == RInt(1)
        z2   == RMul(zp, zp)
        E2   == RMul(Ep, Ep)
        cima == RMul(RMul(RMul(z2, pp), RSub(um, pp)), RInt(Np))
        baixo == RAdd(RMul(E2, RInt(Np - 1)), RMul(RMul(z2, pp), RSub(um, pp)))
    IN  RDiv(cima, baixo)

\* line 83 without np.ceil: int() truncates
NAmostraTruncado(nc) == nc.num \div nc.den

\* line 83: int(np.ceil(n_calculado))
NAmostra(nc) == Ceil(nc)

\* The script's constants (lines 77-80).
NLote == 5000
ZScript == Rat(196, 100)
PScript == Rat(1, 2)
EScript == Rat(2, 100)


---------------------------------------------------------------------------
(* Fixed-point helpers and the numpy / scipy functions the script calls.   *)

\* Division rounding toward zero.
Quo(a, b) == IF a >= 0 THEN a \div b ELSE -((-a) \div b)

Max(a, b) == IF a >= b THEN a ELSE b
Min(a, b) == IF a <= b THEN a ELSE b

\* Integer square root by bisection.
RECURSIVE ISqrtIn(_, _, _)
ISqrtIn(v, lo, hi) ==
    IF lo = hi THEN lo
    ELSE LET mid == (lo + hi + 1) \div 2
         IN  IF mid * mid <= v THEN ISqrtIn(v, mid, hi)
             ELSE ISqrtIn(v, lo, mid - 1)

ISqrt(v) == ISqrtIn(v, 0, 46340)

\* np.sqrt of an integer count, in thousandths.
SqrtMilli(k) == ISqrt(k * 1000000)

RECURSIVE Soma(_)
Soma(s) == IF s = <<>> THEN 0 ELSE Head(s) + Soma(Tail(s))

\* A DataFrame column as a Series.
Coluna(df, c) == [i \in 1..Len(df) |-> df[i][c]]

\* Series.sum() of a boolean Series.
Conta(s) == Cardinality({i \in 1..Len(s) : s[i]})

Media(dados) == Quo(Soma(dados), Len(dados))

\* Series.var(ddof=1), in millionths (thousandths squared).
Variancia(dados) ==
    LET m == Media(dados)
    IN  Quo(Soma([i \in 1..Len(dados) |-> (dados[i] - m) * (dados[i] - m)]),
            Len(dados) - 1)

\* Series.std(ddof=1), in thousandths.
DesvioPadrao(dados) == ISqrt(Variancia(dados))

\* scipy.stats.t.ppf(q, df) for the quantiles 0.975 and 0.995, q and result
\* in thousandths: tabulated up to 15 degrees of freedom, then the first
\* term of the expansion around the normal quantile.
TPpf(q, df) ==
    LET t975 == <<12706, 4303, 3182, 2776, 2571, 2447, 2365, 2306, 2262, 2228,
                  2201, 2179, 2160, 2145, 2131>>
        t995 == <<63657, 9925, 5841, 4604, 4032, 3707, 3499, 3355, 3250, 3169,
                  3106, 3055, 3012, 2977, 2947>>
    IN  CASE q = 975 -> IF df <= 15 THEN t975[df] ELSE 1960 + Quo(2372, df)
          [] q = 995 -> IF df <= 15 THEN t995[df] ELSE 2576 + Quo(4917, df)

\* Two-sided p-value of a t statistic with df degrees of freedom, in
\* thousandths: a step function of |t| that is exact at the tabulated
\* quantiles (p = 0.05 at t.ppf(0.975), p = 0.01 at t.ppf(0.995)) and takes
\* one representative value inside each bracket.
TDistPValor(t, df) ==
    LET a == Abs(t)
    IN  IF a > TPpf(995, df) THEN 5
        ELSE IF a = TPpf(995, df) THEN 10
        ELSE IF a > TPpf(975, df) THEN 30
        ELSE IF a = TPpf(975, df) THEN 50
        ELSE IF a > 0 THEN 500
        ELSE 1000

\* scipy.stats.norm.ppf(q), q and result in thousandths.
NormPpf(q) ==
    CASE q = 10 -> -2326 [] q = 50 -> -1645 [] q = 100 -> -1282
      [] q = 500 -> 0 [] q = 900 -> 1282 [] q = 950 -> 1645
      [] q = 975 -> 1960 [] q = 990 -> 2326

\* scipy.stats.norm.cdf(z), in thousandths: a step function that is exact
\* at the tabulated quantiles.
NormCdf(zs) ==
    IF zs < NormPpf(10) THEN 5
    ELSE IF zs = NormPpf(10) THEN 10
    ELSE IF zs < NormPpf(50) THEN 30
    ELSE IF zs = NormPpf(50) THEN 50
    ELSE IF zs < NormPpf(100) THEN 75
    ELSE IF zs = NormPpf(100) THEN 100
    ELSE IF zs < 0 THEN 300
    ELSE IF zs = 0 THEN 500
    ELSE 750

\* scipy.stats.ttest_1samp from the summary of the data: the statistic
\* (mean - popmean) / (std / sqrt(n)) and its two-sided p-value.
TTestResumo(media, desvio, tam, popmean) ==
    LET ep == Quo(desvio * 1000, SqrtMilli(tam))
        t  == Quo((media - popmean) * 1000, ep)
    IN  [statistic |-> t, pvalue |-> TDistPValor(t, tam - 1)]

TTest1Samp(dados, popmean) ==
    TTestResumo(Media(dados), DesvioPadrao(dados), Len(dados), popmean)

\* np.random.choice(a, size, replace): every array it can return.
Choice(a, size, replace) ==
    {s \in [1..size -> 0..(a - 1)] :
        replace \/ \A i, j \in 1..size : i # j => s[i] # s[j]}

---------------------------------------------------------------------------
(* Bounds of the model and the inputs it draws.                            *)

\* Largest simulated lot (the script's lot has NLote parts).
MaxLote == 4

\* Largest sample whose summary statistics are drawn directly.
MaxAmostra == 10

\* Parts a simulated lot is made of, in thousandths of a gram / millimetre.
\* They sit on and just outside each of the four specification limits;
\* weights and dimensions are pairwise distinct, as normal draws are.
Pecas == <<[peso |-> 140000, dimensao |-> 26500],
           [peso |-> 160000, dimensao |-> 23500],
           [peso |-> 139900, dimensao |-> 25000],
           [peso |-> 160100, dimensao |-> 24000],
           [peso |-> 150000, dimensao |-> 23400],
           [peso |-> 151000, dimensao |-> 26600]>>

TamanhosLote == 2..MaxLote

\* The lots of a given size: selections of Pecas in increasing order.
Populacoes(tam) ==
    {[i \in 1..tam |-> Pecas[f[i]]] :
        f \in {g \in [1..tam -> 1..Len(Pecas)] :
                  \A i \in 1..(tam - 1) : g[i] < g[i + 1]}}

\* Margins of error tried for the sample size (the script uses EScript).
MargensErro == {EScript, Rat(1, 2)}

EstilosPreferidos == {"seaborn-v0_8", "seaborn"}

---------------------------------------------------------------------------
(* Values of the variables before the script assigns them.                 *)

SemStats == [n |-> 0, media |-> 0, desvio_padrao |-> 0, variancia |-> 0]
SemCriterios == [peso_media_ok |-> FALSE, dimensao_media_ok |-> FALSE,
                 conformidade_ok |-> FALSE]
SemResumo == [tamanho |-> 0, media_peso |-> 0, margem_peso |-> 0,
              media_dimensao |-> 0, margem_dimensao |-> 0,
              conformidade |-> 0, status |-> ""]

SemTamanho ==
    /\ N = 0 /\ z = RInt(0) /\ p = RInt(0) /\ E = RInt(0)
    /\ n_calculado = RInt(0) /\ n_amostra = 0

SemAmostra == indices_amostra = <<>> /\ amostra = <<>>

SemDescritiva == stats_peso = SemStats /\ stats_dimensao = SemStats

SemTestes ==
    /\ t_stat_peso = 0 /\ p_value_peso = 0 /\ t_critico = 0
    /\ decisao_peso = ""
    /\ t_stat_dimensao = 0 /\ p_value_dimensao = 0 /\ decisao_dimensao = ""
    /\ peso_conforme = <<>> /\ dimensao_conforme = <<>>
    /\ pecas_conformes = <<>> /\ proporcao_conformes = 0
    /\ n = 0 /\ x = 0 /\ p_obs = 0 /\ z_stat = 0 /\ p_value_prop = 0
    /\ decisao_prop = ""

SemIntervalos ==
    /\ erro_padrao_peso = 0 /\ margem_erro_peso = 0
    /\ ic_peso_inferior = 0 /\ ic_peso_superior = 0
    /\ erro_padrao_dimensao = 0 /\ margem_erro_dimensao = 0
    /\ ic_dimensao_inferior = 0 /\ ic_dimensao_superior = 0
    /\ erro_padrao_prop = 0 /\ margem_erro_prop = 0
    /\ ic_prop_inferior = 0 /\ ic_prop_superior = 0

SemDecisao ==
    /\ criterios_aprovacao = SemCriterios /\ todos_criterios_ok = FALSE
    /\ decisao_final = "" /\ justificativa = <<>>
    /\ recomendacoes = "" /\ resumo = SemResumo

---------------------------------------------------------------------------
(* Start of the script: optional seaborn and the plotting style            *)
(* (lines 11-28).                                                          *)

\* lines 12-18: try: import seaborn ... except ImportError
ImportarSeaborn ==
    /\ pc = "import"
    /\ SEABORN_AVAILABLE' = seaborn_instalado
    /\ avisos' = IF seaborn_instalado THEN avisos
                 ELSE avisos \cup {"Seaborn nao disponivel"}
    /\ pc' = "estilo"
    /\ UNCHANGED <<estilo, estilos_aplicados, populacao, sizeVars, drawVars,
                   descVars, testVars, icMediaVars, icPropVars, decVars,
                   recomendacoes, resumo, ambiente>>

\* lines 21-28 without the last fallback: the second except re-raises.
EscolherEstiloSemPadrao(disponiveis) ==
    IF "seaborn-v0_8" \in disponiveis
    THEN [estilo |-> "seaborn-v0_8", aplicados |-> 1, aviso |-> FALSE,
          erro |-> FALSE]
    ELSE IF "seaborn" \in disponiveis
    THEN [estilo |-> "seaborn", aplicados |-> 1, aviso |-> FALSE,
          erro |-> FALSE]
    ELSE [estilo |-> "", aplicados |-> 0, aviso |-> FALSE, erro |-> TRUE]

\* lines 21-28: plt.style.use succeeds on an available style and raises
\* otherwise; each bare except moves on to the next style.
EscolherEstilo(disponiveis) ==
    IF "seaborn-v0_8" \in disponiveis
    THEN [estilo |-> "seaborn-v0_8", aplicados |-> 1, aviso |-> FALSE,
          erro |-> FALSE]
    ELSE IF "seaborn" \in disponiveis
    THEN [estilo |-> "seaborn", aplicados |-> 1, aviso |-> FALSE,
          erro |-> FALSE]
    ELSE IF "default" \in disponiveis
    THEN [estilo |-> "default", aplicados |-> 1, aviso |-> TRUE,
          erro |-> FALSE]
    ELSE [estilo |-> "", aplicados |-> 0, aviso |-> FALSE, erro |-> TRUE]

ConfigurarEstilo ==
    /\ pc = "estilo"
    /\ LET r == EscolherEstilo(estilos_disponiveis \cup {"default"})
       IN  /\ estilo' = r.estilo
           /\ estilos_aplicados' = r.aplicados
           /\ avisos' = IF r.aviso
                        THEN avisos \cup {"Usando estilo padrao do matplotlib"}
                        ELSE avisos
           /\ pc' = IF r.erro THEN "falha" ELSE "populacao"
    /\ UNCHANGED <<SEABORN_AVAILABLE, populacao, sizeVars, drawVars,
                   descVars, testVars, icMediaVars, icPropVars, decVars,
                   recomendacoes, resumo, ambiente>>

---------------------------------------------------------------------------
(* Section 1: the simulated lot (lines 38-51).                             *)

GerarPopulacao ==
    /\ pc = "populacao"
    /\ \E tam \in TamanhosLote : \E pop \in Populacoes(tam) :
           populacao' = pop
    /\ pc' = "tamanho"
    /\ UNCHANGED <<envVars, sizeVars, drawVars, descVars, testVars,
                   icMediaVars, icPropVars, decVars, recomendacoes, resumo,
                   ambiente>>

---------------------------------------------------------------------------
(* Section 2: sample size and simple random sampling (lines 75-93).        *)

\* lines 77-83 for given parameters
TamanhoAmostra(Np, zp, pp, Ep) ==
    /\ N' = Np /\ z' = zp /\ p' = pp /\ E' = Ep
    /\ n_calculado' = NCalculado(Np, zp, pp, Ep)
    /\ n_amostra' = NAmostra(NCalculado(Np, zp, pp, Ep))
    /\ pc' = "amostragem"

CalcularTamanho ==
    /\ pc = "tamanho"
    /\ \E Ep \in MargensErro :
           TamanhoAmostra(Len(populacao), ZScript, PScript, Ep)
    /\ UNCHANGED <<envVars, populacao, drawVars, descVars, testVars,
                   icMediaVars, icPropVars, decVars, recomendacoes, resumo,
                   ambiente>>

\* line 93 with a destructive draw: the drawn rows leave the population.
AmostrarLinhasRetirando(pop, indices) ==
    [amostra   |-> [i \in 1..Len(indices) |-> pop[indices[i] + 1]],
     populacao |-> SelectSeq(pop, LAMBDA r :
                       \A i \in 1..Len(indices) : pop[indices[i] + 1] # r)]

\* line 93: populacao.iloc[indices_amostra].copy() builds a new frame from
\* the rows at the given 0-based positions and leaves populacao as it is.
AmostrarLinhas(pop, indices) ==
    [amostra   |-> [i \in 1..Len(indices) |-> pop[indices[i] + 1]],
     populacao |-> pop]

\* np.random.choice with replacement.
IndicesComReposicao(tam, size) == Choice(tam, size, TRUE)

\* line 92: np.random.choice(len(populacao), size=n_amostra, replace=False)
IndicesAmostra(tam, size) == Choice(tam, size, FALSE)

AmostragemAleatoria ==
    /\ pc = "amostragem"
    /\ \E indices \in IndicesAmostra(Len(populacao), n_amostra) :
           /\ indices_amostra' = indices
           /\ amostra' = AmostrarLinhas(populacao, indices).amostra
           /\ populacao' = AmostrarLinhas(populacao, indices).populacao
    /\ pc' = "descritiva"
    /\ UNCHANGED <<envVars, sizeVars, descVars, testVars, icMediaVars,
                   icPropVars, decVars, recomendacoes, resumo, ambiente>>

---------------------------------------------------------------------------
(* Section 3: descriptive statistics (lines 104-185).                      *)

\* lines 104-123; the entries no later step reads (median, mode, range,
\* quartiles, coefficient of variation, skewness, kurtosis) are left out.
calcular_estatisticas(dados) ==
    [n             |-> Len(dados),
     media         |-> Media(dados),
     desvio_padrao |-> DesvioPadrao(dados),
     variancia     |-> Variancia(dados)]

\* lines 125-185: the statistics of both columns, then the first figure.
AnaliseDescritiva ==
    /\ pc = "descritiva"
    /\ stats_peso' = calcular_estatisticas(Coluna(amostra, "peso"))
    /\ stats_dimensao' = calcular_estatisticas(Coluna(amostra, "dimensao"))
    /\ pc' = "testes"
    /\ UNCHANGED <<envVars, populacao, sizeVars, drawVars, testVars,
                   icMediaVars, icPropVars, decVars, recomendacoes, resumo,
                   ambiente>>

---------------------------------------------------------------------------
(* Section 4: hypothesis tests (lines 187-305).                            *)

\* lines 64-69, in thousandths
especificacoes == [peso_min |-> 140000, peso_max |-> 160000,
                   dimensao_min |-> 23500, dimensao_max |-> 26500]

peso_target == 150000
dimensao_target == 25000
\* significance level, in thousandths
alpha == 50
\* expected proportion, in ten-thousandths
p0 == 9500

\* lines 262-263 with the limits excluded
PesoConformeEstrito(am) ==
    [i \in 1..Len(am) |-> /\ am[i].peso > especificacoes.peso_min
                          /\ am[i].peso < especificacoes.peso_max]

\* lines 262-263
PesoConforme(am) ==
    [i \in 1..Len(am) |-> /\ am[i].peso >= especificacoes.peso_min
                          /\ am[i].peso <= especificacoes.peso_max]

\* lines 264-265
DimensaoConforme(am) ==
    [i \in 1..Len(am) |-> /\ am[i].dimensao >= especificacoes.dimensao_min
                          /\ am[i].dimensao <= especificacoes.dimensao_max]

\* line 268: elementwise &
PecasConformes(pcf, dcf) == [i \in 1..Len(pcf) |-> pcf[i] /\ dcf[i]]

\* lines 269, 283: a count over the sample size, in ten-thousandths
Proporcao(cont, tam) == Quo(cont * 10000, tam)

\* line 286: (p_obs - p0) / sqrt(p0 * (1 - p0) / n), in thousandths
ZProporcao(po, pzero, tam) ==
    Quo((po - pzero) * 1000, ISqrt(Quo(pzero * (10000 - pzero), tam)))

\* lines 218-223, 247-252, 297-302
Decisao(p_value) ==
    IF p_value < alpha THEN "Rejeitamos H0" ELSE "Nao rejeitamos H0"

\* The whole section, given what it reads from the sample: its length, the
\* two ttest_1samp results and the two conformity series.
Secao4(tam, rp, rd, pcf, dcf) ==
    /\ t_stat_peso' = rp.statistic
    /\ p_value_peso' = rp.pvalue
    /\ t_critico' = TPpf(1000 - Quo(alpha, 2), tam - 1)
    /\ decisao_peso' = Decisao(rp.pvalue)
    /\ t_stat_dimensao' = rd.statistic
    /\ p_value_dimensao' = rd.pvalue
    /\ decisao_dimensao' = Decisao(rd.pvalue)
    /\ peso_conforme' = pcf
    /\ dimensao_conforme' = dcf
    /\ pecas_conformes' = PecasConformes(pcf, dcf)
    /\ proporcao_conformes' = Proporcao(Conta(PecasConformes(pcf, dcf)), tam)
    /\ n' = tam
    /\ x' = Conta(PecasConformes(pcf, dcf))
    /\ p_obs' = Proporcao(x', n')
    /\ z_stat' = ZProporcao(p_obs', p0, n')
    /\ p_value_prop' = NormCdf(z_stat')
    /\ decisao_prop' = Decisao(p_value_prop')
    /\ pc' = "ic_medias"

TestesHipoteses ==
    /\ pc = "testes"
    /\ Secao4(Len(amostra),
              TTest1Samp(Coluna(amostra, "peso"), peso_target),
              TTest1Samp(Coluna(amostra, "dimensao"), dimensao_target),
              PesoConforme(amostra), DimensaoConforme(amostra))
    /\ UNCHANGED <<envVars, populacao, sizeVars, drawVars, descVars,
                   icMediaVars, icPropVars, decVars, recomendacoes, resumo,
                   ambiente>>

---------------------------------------------------------------------------
(* Section 5: confidence intervals (lines 313-352).                        *)

\* confidence level, in thousandths
confianca == 950
alpha_ic == 1000 - confianca

\* lines 318-321 with the standard error used as the margin on one side
IntervaloMediaAssimetrico(media, desvio, tam, tcrit) ==
    LET ep == Quo(desvio * 1000, SqrtMilli(tam))
        me == Quo(tcrit * ep, 1000)
    IN  [erro_padrao |-> ep, margem_erro |-> me,
         inferior |-> media - me, superior |-> media + ep]

\* lines 318-321 and 330-333
IntervaloMedia(media, desvio, tam, tcrit) ==
    LET ep == Quo(desvio * 1000, SqrtMilli(tam))
        me == Quo(tcrit * ep, 1000)
    IN  [erro_padrao |-> ep, margem_erro |-> me,
         inferior |-> media - me, superior |-> media + me]

IntervalosMedias(tam) ==
    /\ pc = "ic_medias"
    /\ LET ip == IntervaloMedia(stats_peso.media, stats_peso.desvio_padrao,
                                tam, t_critico)
           id == IntervaloMedia(stats_dimensao.media,
                                stats_dimensao.desvio_padrao, tam, t_critico)
       IN  /\ erro_padrao_peso' = ip.erro_padrao
           /\ margem_erro_peso' = ip.margem_erro
           /\ ic_peso_inferior' = ip.inferior
           /\ ic_peso_superior' = ip.superior
           /\ erro_padrao_dimensao' = id.erro_padrao
           /\ margem_erro_dimensao' = id.margem_erro
           /\ ic_dimensao_inferior' = id.inferior
           /\ ic_dimensao_superior' = id.superior
    /\ pc' = "ic_prop"
    /\ UNCHANGED <<envVars, populacao, sizeVars, drawVars, descVars,
                   testVars, icPropVars, decVars, recomendacoes, resumo,
                   ambiente>>

\* lines 342-346 without max(0, .) and min(1, .)
IntervaloProporcaoSemLimites(po, tam) ==
    LET ep == ISqrt(Quo(po * (10000 - po), tam))
        me == Quo(NormPpf(1000 - Quo(alpha_ic, 2)) * ep, 1000)
    IN  [erro_padrao |-> ep, margem_erro |-> me,
         inferior |-> po - me, superior |-> po + me]

\* lines 342-346, in ten-thousandths
IntervaloProporcao(po, tam) ==
    LET ep == ISqrt(Quo(po * (10000 - po), tam))
        me == Quo(NormPpf(1000 - Quo(alpha_ic, 2)) * ep, 1000)
    IN  [erro_padrao |-> ep, margem_erro |-> me,
         inferior |-> Max(0, po - me), superior |-> Min(10000, po + me)]

IntervaloProporcaoAmostra ==
    /\ pc = "ic_prop"
    /\ LET ip == IntervaloProporcao(p_obs, n)
       IN  /\ erro_padrao_prop' = ip.erro_padrao
           /\ margem_erro_prop' = ip.margem_erro
           /\ ic_prop_inferior' = ip.inferior
           /\ ic_prop_superior' = ip.superior
    /\ pc' = "decisao"
    /\ UNCHANGED <<envVars, populacao, sizeVars, drawVars, descVars,
                   testVars, icMediaVars, decVars, recomendacoes, resumo,
                   ambiente>>

---------------------------------------------------------------------------
(* Section 6: decision, recommendations, summary (lines 360-458).          *)

\* lines 361-365 with strict comparisons against the critical value
CriteriosEstritos(tp, td, tcrit, pvp) ==
    [peso_media_ok     |-> Abs(tp) < tcrit,
     dimensao_media_ok |-> Abs(td) < tcrit,
     conformidade_ok   |-> pvp >= alpha]

\* lines 361-365
Criterios(tp, td, tcrit, pvp) ==
    [peso_media_ok     |-> Abs(tp) <= tcrit,
     dimensao_media_ok |-> Abs(td) <= tcrit,
     conformidade_ok   |-> pvp >= alpha]

\* line 372 with any() in place of all()
AlgumCriterioOk(c) ==
    c.peso_media_ok \/ c.dimensao_media_ok \/ c.conformidade_ok

\* line 372: all(criterios_aprovacao.values())
TodosCriteriosOk(c) ==
    c.peso_media_ok /\ c.dimensao_media_ok /\ c.conformidade_ok

\* lines 375-380
DecisaoFinal(ok) == IF ok THEN "APROVADO" ELSE "REPROVADO"

\* lines 385-398: the three lines printed
Justificativa(c) ==
    << IF c.peso_media_ok
       THEN "Peso medio esta dentro do padrao esperado"
       ELSE "Peso medio NAO esta dentro do padrao esperado",
       IF c.dimensao_media_ok
       THEN "Dimensao media esta dentro do padrao esperado"
       ELSE "Dimensao media NAO esta dentro do padrao esperado",
       IF c.conformidade_ok
       THEN "Taxa de conformidade atende ao minimo exigido (>=95%)"
       ELSE "Taxa de conformidade NAO atende ao minimo exigido (>=95%)" >>

\* lines 360-398
DecidirLote ==
    /\ pc = "decisao"
    /\ LET c == Criterios(t_stat_peso, t_stat_dimensao, t_critico,
                          p_value_prop)
       IN  /\ criterios_aprovacao' = c
           /\ todos_criterios_ok' = TodosCriteriosOk(c)
           /\ decisao_final' = DecisaoFinal(TodosCriteriosOk(c))
           /\ justificativa' = Justificativa(c)
    /\ pc' = "recomendacoes"
    /\ UNCHANGED <<envVars, populacao, sizeVars, drawVars, descVars,
                   testVars, icMediaVars, icPropVars, recomendacoes, resumo,
                   ambiente>>

\* lines 401-409: the first recommendation of the branch taken
Recomendacoes(decisao) ==
    IF decisao = "APROVADO" THEN "O lote pode ser enviado ao cliente"
    ELSE "NAO enviar o lote ao cliente"

Recomendar ==
    /\ pc = "recomendacoes"
    /\ recomendacoes' = Recomendacoes(decisao_final)
    /\ pc' = "resumo"
    /\ UNCHANGED <<envVars, populacao, sizeVars, drawVars, descVars,
                   testVars, icMediaVars, icPropVars, decVars, resumo,
                   ambiente>>

\* lines 415-419, then the final figure and the closing banner
Resumir(tam) ==
    /\ pc = "resumo"
    /\ resumo' = [tamanho         |-> tam,
                  media_peso      |-> stats_peso.media,
                  margem_peso     |-> margem_erro_peso,
                  media_dimensao  |-> stats_dimensao.media,
                  margem_dimensao |-> margem_erro_dimensao,
                  conformidade    |-> proporcao_conformes,
                  status          |-> decisao_final]
    /\ pc' = "fim"
    /\ UNCHANGED <<envVars, populacao, sizeVars, drawVars, descVars,
                   testVars, icMediaVars, icPropVars, decVars, recomendacoes,
                   ambiente>>

---------------------------------------------------------------------------
(* The script from its first line.                                         *)

Init ==
    /\ pc = "import"
    /\ seaborn_instalado \in BOOLEAN
    /\ estilos_disponiveis \in SUBSET EstilosPreferidos
    /\ SEABORN_AVAILABLE = FALSE
    /\ estilo = "" /\ estilos_aplicados = 0 /\ avisos = {}
    /\ populacao = <<>>
    /\ SemTamanho /\ SemAmostra /\ SemDescritiva /\ SemTestes
    /\ SemIntervalos /\ SemDecisao

Next ==
    \/ ImportarSeaborn
    \/ ConfigurarEstilo
    \/ GerarPopulacao
    \/ CalcularTamanho
    \/ AmostragemAleatoria
    \/ AnaliseDescritiva
    \/ TestesHipoteses
    \/ IntervalosMedias(Len(amostra))
    \/ IntervaloProporcaoAmostra
    \/ DecidirLote
    \/ Recomendar
    \/ Resumir(Len(amostra))

Spec == Init /\ [][Next]_vars

---------------------------------------------------------------------------
(* The sample-size formula on its own, over a grid of parameters that      *)
(* holds the script's.                                                     *)

\* Largest population size tried besides the script's NLote.
MaxN == 8

TamanhosFormula == (1..MaxN) \cup {NLote}
ValoresZ == {Rat(1645, 1000), ZScript, RInt(2)}
ValoresP == {Rat(1, 5), PScript}
ValoresE == {Rat(1, 100), EScript, Rat(5, 100), Rat(1, 2)}

\* The environment and start-up results of a run where nothing is missing.
AmbienteCompleto ==
    /\ seaborn_instalado = TRUE
    /\ estilos_disponiveis = EstilosPreferidos
    /\ SEABORN_AVAILABLE = TRUE
    /\ estilo = "seaborn-v0_8" /\ estilos_aplicados = 1 /\ avisos = {}

InitTamanho ==
    /\ pc = "tamanho"
    /\ AmbienteCompleto
    /\ populacao = <<>>
    /\ SemTamanho /\ SemAmostra /\ SemDescritiva /\ SemTestes
    /\ SemIntervalos /\ SemDecisao

FormulaTamanho ==
    /\ pc = "tamanho"
    /\ \E Np \in TamanhosFormula, zp \in ValoresZ, pp \in ValoresP,
          Ep \in ValoresE : TamanhoAmostra(Np, zp, pp, Ep)
    /\ UNCHANGED <<ambiente, envVars, populacao, drawVars, descVars,
                   testVars, icMediaVars, icPropVars, decVars, recomendacoes,
                   resumo>>

SpecTamanho == InitTamanho /\ [][FormulaTamanho]_vars

---------------------------------------------------------------------------
(* Sections 4 to 6 on their own, from drawn summary statistics: samples of *)
(* up to MaxAmostra parts whose means sit at, next to and away from the    *)
(* critical values, with every count of conforming parts.                  *)

\* The summary of a sample of tam parts whose standard error is exactly 1.
EstatisticasResumo(tam, media) ==
    [n             |-> tam,
     media         |-> media,
     desvio_padrao |-> SqrtMilli(tam),
     variancia     |-> SqrtMilli(tam) * SqrtMilli(tam)]

\* Distances of a mean from its target, for a critical value tc.
Desvios(tc) == {0, tc, tc + 1, -tc, -(tc + 1)}

InitInferencia ==
    /\ pc = "testes"
    /\ AmbienteCompleto
    /\ populacao = <<>>
    /\ SemTamanho /\ SemAmostra /\ SemTestes /\ SemIntervalos /\ SemDecisao
    /\ \E tam \in 2..MaxAmostra :
         \E dp \in Desvios(TPpf(975, tam - 1)) :
           \E dd \in Desvios(TPpf(975, tam - 1)) :
             /\ stats_peso = EstatisticasResumo(tam, peso_target + dp)
             /\ stats_dimensao = EstatisticasResumo(tam, dimensao_target + dd)

TestesResumo ==
    /\ pc = "testes"
    /\ \E cont \in 0..stats_peso.n :
           Secao4(stats_peso.n,
                  TTestResumo(stats_peso.media, stats_peso.desvio_padrao,
                              stats_peso.n, peso_target),
                  TTestResumo(stats_dimensao.media,
                              stats_dimensao.desvio_padrao,
                              stats_dimensao.n, dimensao_target),
                  [i \in 1..stats_peso.n |-> i <= cont],
                  [i \in 1..stats_peso.n |-> TRUE])
    /\ UNCHANGED <<envVars, populacao, sizeVars, drawVars, descVars,
                   icMediaVars, icPropVars, decVars, recomendacoes, resumo,
                   ambiente>>

NextInferencia ==
    \/ TestesResumo
    \/ IntervalosMedias(stats_peso.n)
    \/ IntervaloProporcaoAmostra
    \/ DecidirLote
    \/ Recomendar
    \/ Resumir(stats_peso.n)

SpecInferencia == InitInferencia /\ [][NextInferencia]_vars

---------------------------------------------------------------------------
(* Properties.                                                             *)

Etapas == <<"import", "estilo", "populacao", "tamanho", "amostragem",
            "descritiva", "testes", "ic_medias", "ic_prop", "decisao",
            "recomendacoes", "resumo", "fim">>

Posicao(e) == CHOOSE i \in 1..Len(Etapas) : Etapas[i] = e

\* The step of the script labelled e has run.
Passou(e) == pc # "falha" /\ Posicao(pc) > Posicao(e)

\* k >= (z^2 p (1-p) N) / (E^2 (N-1) + z^2 p (1-p)), cross-multiplied.
RestricaoMargem(k) ==
    LET zpq == RMul(RMul(RMul(z, z), p), RSub(RInt(1), p))
    IN  RLe(RMul(zpq, RInt(N)),
            RMul(RInt(k), RAdd(RMul(RMul(E, E), RInt(N - 1)), zpq)))

\* C1: the sample size is the smallest integer that satisfies the
\* margin-of-error constraint: n_amostra satisfies it and n_amostra - 1 does
\* not; for the script's constants it is 1623.
C1_TamanhoMinimo ==
    Passou("tamanho") =>
        /\ RestricaoMargem(n_amostra)
        /\ ~RestricaoMargem(n_amostra - 1)
        /\ (N = NLote /\ z = ZScript /\ p = PScript /\ E = EScript
               => n_amostra = 1623)

C1_Witness ==
    /\ Passou("tamanho")
    /\ N = NLote /\ z = ZScript /\ p = PScript /\ E = EScript
    /\ n_amostra = 1623
    /\ n_calculado.den # 1

\* C2: the lot is APROVADO exactly when the three criteria are all true and
\* REPROVADO otherwise; the recommendations printed and the status of the
\* final summary follow that same decision.
C2_DecisaoConjuncao ==
    /\ Passou("decisao") =>
           /\ decisao_final \in {"APROVADO", "REPROVADO"}
           /\ decisao_final = "APROVADO" <=>
                  (/\ criterios_aprovacao.peso_media_ok
                   /\ criterios_aprovacao.dimensao_media_ok
                   /\ criterios_aprovacao.conformidade_ok)
    /\ Passou("recomendacoes") =>
           /\ decisao_final = "APROVADO" =>
                  recomendacoes = "O lote pode ser enviado ao cliente"
           /\ decisao_final = "REPROVADO" =>
                  recomendacoes = "NAO enviar o lote ao cliente"
    /\ Passou("resumo") => resumo.status = decisao_final

NumCriteriosOk ==
    Cardinality({c \in DOMAIN criterios_aprovacao : criterios_aprovacao[c]})

C2_Witness ==
    /\ pc = "fim"
    /\ NumCriteriosOk = 2
    /\ decisao_final = "REPROVADO"
    /\ resumo.status = "REPROVADO"
    /\ recomendacoes = "NAO enviar o lote ao cliente"

\* The sampled rows that pass all four specification checks, limits included.
LinhasConformes ==
    {i \in 1..Len(amostra) :
        /\ amostra[i].peso >= 140000 /\ amostra[i].peso <= 160000
        /\ amostra[i].dimensao >= 23500 /\ amostra[i].dimensao <= 26500}

\* C3: the conformity proportion is the number of sampled rows passing all
\* four inclusive limit checks over the sample size, and that same count is
\* the number of successes x of the proportion test.
C3_ProporcaoConformes ==
    Passou("testes") =>
        /\ \A i \in 1..Len(amostra) :
               pecas_conformes[i] <=> i \in LinhasConformes
        /\ Len(pecas_conformes) = Len(amostra)
        /\ x = Cardinality(LinhasConformes)
        /\ n = Len(amostra)
        /\ proporcao_conformes = (Cardinality(LinhasConformes) * 10000)
                                     \div Len(amostra)
        /\ p_obs = proporcao_conformes

C3_Witness ==
    /\ Passou("testes")
    /\ 0 < x /\ x < n
    /\ \E i \in LinhasConformes : amostra[i].peso = 140000
    /\ \E i \in LinhasConformes : amostra[i].dimensao = 23500
    /\ \E i \in 1..Len(amostra) :
           i \notin LinhasConformes /\ amostra[i].peso = 150000

\* C4: each mean's confidence interval is the sample mean minus and plus
\* one non-negative margin of error, and the final summary prints that mean
\* and that margin.
C4_IntervaloSimetrico ==
    /\ Passou("ic_medias") =>
           /\ margem_erro_peso >= 0
           /\ ic_peso_inferior = stats_peso.media - margem_erro_peso
           /\ ic_peso_superior = stats_peso.media + margem_erro_peso
           /\ ic_peso_inferior <= stats_peso.media
           /\ stats_peso.media <= ic_peso_superior
           /\ margem_erro_dimensao >= 0
           /\ ic_dimensao_inferior
                  = stats_dimensao.media - margem_erro_dimensao
           /\ ic_dimensao_superior
                  = stats_dimensao.media + margem_erro_dimensao
           /\ ic_dimensao_inferior <= stats_dimensao.media
           /\ stats_dimensao.media <= ic_dimensao_superior
    /\ Passou("resumo") =>
           /\ resumo.media_peso = stats_peso.media
           /\ resumo.margem_peso = ic_peso_superior - stats_peso.media
           /\ resumo.media_dimensao = stats_dimensao.media
           /\ resumo.margem_dimensao
                  = stats_dimensao.media - ic_dimensao_inferior

C4_Witness ==
    /\ pc = "fim"
    /\ Len(amostra) > 0
    /\ resumo.margem_peso > 0
    /\ resumo.margem_dimensao > 0
    /\ ic_peso_inferior < stats_peso.media
    /\ stats_dimensao.media < ic_dimensao_superior

\* C5: the sample is drawn without replacement with the size the formula
\* gives: the drawn positions are pairwise distinct, lie in 0..N-1 and number
\* n_amostra, each sampled row is the population row at its position, and
\* 1 <= n_amostra <= N.
C5_AmostraSemReposicao ==
    /\ Passou("tamanho") =>
           /\ N = Len(populacao)
           /\ 1 <= n_amostra /\ n_amostra <= N
    /\ Passou("amostragem") =>
           /\ Len(indices_amostra) = n_amostra
           /\ Len(amostra) = n_amostra
           /\ \A i \in 1..n_amostra :
                  /\ indices_amostra[i] \in 0..(N - 1)
                  /\ amostra[i] = populacao[indices_amostra[i] + 1]
           /\ \A i, j \in 1..n_amostra :
                  i # j => indices_amostra[i] # indices_amostra[j]

C5_Witness ==
    /\ Passou("amostragem")
    /\ 2 <= n_amostra /\ n_amostra < N
    /\ indices_amostra[1] > indices_amostra[2]

\* C6: once generated, the population keeps its size and its values through
\* every later step, and the sample, once drawn, stays the copy of the rows
\* drawn.
C6_PopulacaoImutavel ==
    [][/\ Passou("populacao") =>
              /\ populacao' = populacao
              /\ Len(populacao') \in TamanhosLote
       /\ Passou("amostragem") => amostra' = amostra]_vars

C6_Witness ==
    /\ pc = "fim"
    /\ Len(populacao) = N
    /\ N > n_amostra
    /\ \A i \in 1..n_amostra : amostra[i] = populacao[indices_amostra[i] + 1]

\* C7: the style selection ends with exactly one style applied, the first
\* available of 'seaborn-v0_8', 'seaborn', 'default'; the default-style
\* notice is printed exactly when both preferred styles are unavailable; a
\* missing seaborn only prints its notice; no combination stops the script.
C7_FallbackEstilo ==
    /\ pc # "falha"
    /\ pc = "import" => ENABLED ImportarSeaborn
    /\ pc = "estilo" => ENABLED ConfigurarEstilo
    /\ pc = "populacao" => ENABLED GerarPopulacao
    /\ Passou("import") =>
           /\ SEABORN_AVAILABLE = seaborn_instalado
           /\ "Seaborn nao disponivel" \in avisos <=> ~seaborn_instalado
    /\ Passou("estilo") =>
           /\ estilos_aplicados = 1
           /\ estilo = IF "seaborn-v0_8" \in estilos_disponiveis
                       THEN "seaborn-v0_8"
                       ELSE IF "seaborn" \in estilos_disponiveis
                       THEN "seaborn" ELSE "default"
           /\ "Usando estilo padrao do matplotlib" \in avisos
                  <=> estilos_disponiveis = {}

C7_Witness ==
    /\ pc = "fim"
    /\ ~seaborn_instalado
    /\ estilos_disponiveis = {}
    /\ estilo = "default"
    /\ Cardinality(avisos) = 2

\* C8: whenever the conformity criterion is reported as met, the observed
\* proportion of conforming parts is at least 95%.
C8_ConformidadeMinima ==
    Passou("decisao") =>
        (criterios_aprovacao.conformidade_ok => p_obs >= 9500)

\* C9: each criterion of the final step agrees with the decision its test
\* printed (true exactly when H0 was not rejected, also at |t| = t_critico),
\* so the lot is APROVADO exactly when no test rejected H0.
C9_CriteriosConcordam ==
    Passou("decisao") =>
        /\ criterios_aprovacao.peso_media_ok
               <=> decisao_peso = "Nao rejeitamos H0"
        /\ criterios_aprovacao.dimensao_media_ok
               <=> decisao_dimensao = "Nao rejeitamos H0"
        /\ criterios_aprovacao.conformidade_ok
               <=> decisao_prop = "Nao rejeitamos H0"
        /\ decisao_final = "APROVADO"
               <=> (/\ decisao_peso = "Nao rejeitamos H0"
                    /\ decisao_dimensao = "Nao rejeitamos H0"
                    /\ decisao_prop = "Nao rejeitamos H0")

C9_Witness ==
    /\ Passou("decisao")
    /\ t_critico > 0
    /\ t_stat_peso = -t_critico
    /\ t_stat_dimensao = t_critico + 1
    /\ decisao_peso = "Nao rejeitamos H0"
    /\ decisao_dimensao = "Rejeitamos H0"
    /\ criterios_aprovacao.peso_media_ok

\* C10: for every count of conforming parts the proportion's interval lies
\* in [0, 1] and holds the observed proportion; at x = 0 and x = n the
\* standard error is 0 and the interval is the single point p_obs.
C10_IntervaloProporcao ==
    Passou("ic_prop") =>
        /\ 0 <= ic_prop_inferior
        /\ ic_prop_inferior <= p_obs
        /\ p_obs <= ic_prop_superior
        /\ ic_prop_superior <= 10000
        /\ x \in {0, n} =>
               /\ erro_padrao_prop = 0
               /\ ic_prop_inferior = p_obs
               /\ ic_prop_superior = p_obs

C10_Witness ==
    /\ Passou("ic_prop")
    /\ 0 < x /\ x < n
    /\ p_obs + margem_erro_prop > 10000
    /\ ic_prop_superior = 10000
    /\ p_obs - margem_erro_prop < 0
    /\ ic_prop_inferior = 0

=============================================================================
